---- MODULE Spec2Model ----
(***************************************************************************)
(* Model of the thc-shortages pipeline: transform -> shortage evaluation   *)
(* -> quality gate -> reports/KPIs, as driven by src/pipeline.py and by    *)
(* the Airflow DAG in dags/shortage_pipeline_dag.py.                       *)
(*                                                                         *)
(* Encoding of pandas values:                                              *)
(*   - a DataFrame is [cols |-> set of column names, rows |-> sequence of  *)
(*     rows], a row being a function from column names to cell values;     *)
(*   - money is an integer number of 10^-UnitDecimals currency units, so   *)
(*     that rounding to settings.round_decimals is a real operation;       *)
(*   - a float NaN is the value NaN, a missing string (pd.NA) is NA_Str,   *)
(*     a missing Int64 year is NA_Year;                                    *)
(*   - a date cell is [kind, y, m, d]: kind "date" is a datetime.date,     *)
(*     kind "null" is None/NaT, kind "text" is the string "d/m/y" whose    *)
(*     first number is d and second number is m;                           *)
(*   - a cell of a boolean or numeric column that holds text is a string;  *)
(*     such tables are drawn apart from the well-typed ones.               *)
(***************************************************************************)
EXTENDS Integers, Sequences, FiniteSets, TLC

\* ------------------------------------------------------------------ bounds

\* Largest number of records in a table handed to a stage or ingested by a run.
MaxRows == 2

\* Decimal digits carried by a money value of the model (one more than
\* round_decimals of the test settings, so that 0.005 is representable).
UnitDecimals == 3

\* ------------------------------------------------------------ pandas values

NaN == -999999

NA_Str == "<NA>"

NA_Year == 0

NaT == [kind |-> "null", y |-> 0, m |-> 0, d |-> 0]

Date(y, m, d) == [kind |-> "date", y |-> y, m |-> m, d |-> d]

DateText(first, second, y) == [kind |-> "text", y |-> y, m |-> second, d |-> first]

RECURSIVE Pow10(_)
Pow10(n) == IF n <= 0 THEN 1 ELSE 10 * Pow10(n - 1)

\* The money value of a whole number of hundredths, e.g. Cents(500) is 5.00.
Cents(n) == n * Pow10(UnitDecimals - 2)

Max(a, b) == IF a >= b THEN a ELSE b

\* round(x, decimals) on a money value: nearest multiple of 10^-decimals,
\* ties to the even multiple (numpy / Python rounding); NaN stays NaN.
Round(x, decimals) ==
    IF x = NaN THEN NaN
    ELSE LET q == Pow10(UnitDecimals - decimals)
             lo == (x \div q) * q
             r == x - lo
         IN  IF 2 * r < q THEN lo
             ELSE IF 2 * r > q THEN lo + q
             ELSE IF (lo \div q) % 2 = 0 THEN lo ELSE lo + q

\* str.upper() on the strings of the model; pd.NA stays pd.NA.
Upper(s) ==
    CASE s = "paid" -> "PAID"
      [] s = "Paid" -> "PAID"
      [] s = "usd" -> "USD"
      [] s = "Usd" -> "USD"
      [] s = "eur" -> "EUR"
      [] s = "disputed" -> "DISPUTED"
      [] OTHER -> s

\* str.lower() on the strings of the model.
Lower(s) ==
    CASE s = "DAYFIRST" -> "dayfirst"
      [] s = "DayFirst" -> "dayfirst"
      [] s = "DD/MM/YYYY" -> "dd/mm/yyyy"
      [] s = "MONTHFIRST" -> "monthfirst"
      [] OTHER -> s

\* str.strip() on the strings of the model.
Strip(s) ==
    CASE s = " " -> ""
      [] s = " C-9 " -> "C-9"
      [] OTHER -> s

\* Series.astype(bool) on one cell: a bool is kept, any other Python object
\* becomes its truth value (a string is true unless it is empty).
AsBool(v) ==
    IF ToString(v) = "TRUE" THEN TRUE
    ELSE IF ToString(v) = "FALSE" THEN FALSE
    ELSE v # ""

\* Strings of the model that stand in a numeric column.
NumberTexts == {"5.00", "n/a"}

\* isinstance(v, str) for a cell of a numeric column.
IsText(v) == ToString(v) \in {ToString(t) : t \in NumberTexts}

\* ----------------------------------------------------------------- calendar

IsLeap(y) == (y % 4 = 0) /\ ((y % 100 # 0) \/ (y % 400 = 0))

DaysInMonth(y, m) ==
    IF m = 2 THEN (IF IsLeap(y) THEN 29 ELSE 28)
    ELSE IF m \in {4, 6, 9, 11} THEN 30 ELSE 31

ValidDate(y, m, d) == y >= 1 /\ m \in 1..12 /\ d >= 1 /\ d <= DaysInMonth(y, m)

RECURSIVE DaysBeforeMonth(_, _)
DaysBeforeMonth(y, m) ==
    IF m <= 1 THEN 0 ELSE DaysBeforeMonth(y, m - 1) + DaysInMonth(y, m - 1)

\* date.toordinal(): days since 0001-01-01, that day being 1.
Ordinal(dt) ==
    LET y1 == dt.y - 1
    IN  y1 * 365 + (y1 \div 4) - (y1 \div 100) + (y1 \div 400)
        + DaysBeforeMonth(dt.y, dt.m) + dt.d

\* pd.to_datetime(cell, errors="coerce", dayfirst=dayfirst): a date object is
\* kept, None becomes NaT, text "a/b/y" is read with the preferred order and
\* falls back to the other order when the preferred one is no calendar date.
ToDatetime(cell, dayfirst) ==
    IF cell.kind = "date" THEN cell
    ELSE IF cell.kind = "null" THEN NaT
    ELSE LET asDayFirst == ValidDate(cell.y, cell.m, cell.d)
             asMonthFirst == ValidDate(cell.y, cell.d, cell.m)
         IN  IF dayfirst
             THEN IF asDayFirst THEN Date(cell.y, cell.m, cell.d)
                  ELSE IF asMonthFirst THEN Date(cell.y, cell.d, cell.m)
                  ELSE NaT
             ELSE IF asMonthFirst THEN Date(cell.y, cell.d, cell.m)
                  ELSE IF asDayFirst THEN Date(cell.y, cell.m, cell.d)
                  ELSE NaT

\* ------------------------------------------------------------ configuration

\* SettingsConfig of the tests (tests/test_shortage_logic.py:14-24).
TestSettings ==
    [date_format |-> "dayfirst",
     aging_days_threshold |-> 90,
     currency_expected |-> "USD",
     round_decimals |-> 2,
     partition_by_year |-> TRUE,
     tolerance_small_delta_usd |-> Cents(1)]

\* RulesConfig of the tests (tests/test_shortage_logic.py:27-37).
TestRules ==
    [eligible_statuses |-> <<"PAID", "PAID_PRICE_DISCREPANCY",
                             "PROCESSING_PENDING_AMAZON_ACTION", "QUEUED_FOR_PAYMENT">>,
     shortage_required_flags |-> <<"Any Deductions", "Child_Invoice_Present">>,
     use_strict_currency_check |-> TRUE]

SeqToSet(s) == {s[i] : i \in DOMAIN s}

\* load_rules: the RulesConfig built from the parsed rules file, the
\* eligible statuses upper-cased.
LoadRules(raw) ==
    [eligible_statuses |-> [i \in DOMAIN raw.eligible_statuses |->
                               Upper(raw.eligible_statuses[i])],
     shortage_required_flags |-> raw.shortage_required_flags,
     use_strict_currency_check |-> raw.use_strict_currency_check]

\* ------------------------------------------------------------------- tables

EmptyTable == [cols |-> {}, rows |-> <<>>]

\* df.empty
IsEmpty(df) == df.cols = {} \/ Len(df.rows) = 0

\* working[col] = values, for the columns of `added`, on one row.
Assign(row, added) == added @@ row

\* A DataFrame object: `id` is the identity of the object ("df" is the one
\* the caller holds), `table` its content.
CallerFrame(table) == [id |-> "df", table |-> table]

\* working = df.copy(): another object with the same content.
FrameAliased(frame) == frame

FrameCopy(frame) == [id |-> "working", table |-> frame.table]

\* The content of the caller's object after a stage has assigned the columns
\* of `written` to the object `working`.
SeenByCaller(before, working, written) ==
    IF working.id = "df" THEN written ELSE before

\* --------------------------------------------------------------- transform

\* transform_invoices: one row.
TransformRowNoFill(row, settings) ==
    LET amount == row["Invoice Amount"]
        paid == row["Actual Paid Amount"]
        child == row["Randomized Latest Child Invoice"]
        stripped == IF child = NA_Str THEN "" ELSE Strip(child)
        dayfirst == Lower(settings.date_format) \in {"dayfirst", "dd/mm/yyyy"}
        payment_due == ToDatetime(row["Payment Due Date"], dayfirst)
    IN  Assign(row,
               ("Invoice_Delta" :> (IF amount = NaN \/ paid = NaN THEN NaN
                                    ELSE Round(amount - paid, settings.round_decimals)))
            @@ ("Child_Invoice_Present" :> (stripped # ""))
            @@ ("Payment_Year" :> (IF payment_due = NaT THEN NA_Year ELSE payment_due.y)))

TransformRow(row, settings) ==
    LET amount == IF row["Invoice Amount"] = NaN THEN 0 ELSE row["Invoice Amount"]
        paid == IF row["Actual Paid Amount"] = NaN THEN 0 ELSE row["Actual Paid Amount"]
        child == row["Randomized Latest Child Invoice"]
        stripped == IF child = NA_Str THEN "" ELSE Strip(child)
        dayfirst == Lower(settings.date_format) \in {"dayfirst", "dd/mm/yyyy"}
        payment_due == ToDatetime(row["Payment Due Date"], dayfirst)
    IN  Assign(row,
               ("Invoice Amount" :> amount)
            @@ ("Actual Paid Amount" :> paid)
            @@ ("Invoice_Delta" :> Round(amount - paid, settings.round_decimals))
            @@ ("Child_Invoice_Present" :> (stripped # ""))
            @@ ("Payment_Year" :> (IF payment_due = NaT THEN NA_Year ELSE payment_due.y)))

TransformCols == {"Invoice_Delta", "Child_Invoice_Present", "Payment_Year"}

\* transform_invoices(df, settings)
TransformInvoices(df, settings) ==
    [cols |-> df.cols \cup TransformCols,
     rows |-> [i \in DOMAIN df.rows |-> TransformRow(df.rows[i], settings)]]

\* ---------------------------------------------------------- shortage logic

\* shortage_condition of one row (shortage_logic.py:30-37).
ShortageConditionGe(row, settings, rules) ==
    /\ row["Invoice_Delta"] # NaN
    /\ row["Invoice_Delta"] >= settings.tolerance_small_delta_usd
    /\ (AsBool(row["Any Deductions"]) \/ AsBool(row["Child_Invoice_Present"]))
    /\ row["Invoice Status"] # NA_Str
    /\ Upper(row["Invoice Status"]) \in SeqToSet(rules.eligible_statuses)

ShortageCondition(row, settings, rules) ==
    /\ row["Invoice_Delta"] # NaN
    /\ row["Invoice_Delta"] > settings.tolerance_small_delta_usd
    /\ (AsBool(row["Any Deductions"]) \/ AsBool(row["Child_Invoice_Present"]))
    /\ row["Invoice Status"] # NA_Str
    /\ Upper(row["Invoice Status"]) \in SeqToSet(rules.eligible_statuses)

\* Invoice_Delta.where(shortage_condition, 0.0)
ShortageAmountAlways(row, cond) == row["Invoice_Delta"]

ShortageAmount(row, cond) == IF cond THEN row["Invoice_Delta"] ELSE 0

\* (today - payment_due).dt.days, clip(lower=0), fillna(0), astype(int)
DaysPastDueNoClip(cell, today) ==
    LET payment_due == ToDatetime(cell, TRUE)
    IN  IF payment_due = NaT THEN 0
        ELSE Ordinal(today) - Ordinal(payment_due)

DaysPastDueNoFill(cell, today) ==
    LET payment_due == ToDatetime(cell, TRUE)
    IN  IF payment_due = NaT THEN NaN
        ELSE Max(0, Ordinal(today) - Ordinal(payment_due))

DaysPastDue(cell, today) ==
    LET payment_due == ToDatetime(cell, TRUE)
    IN  IF payment_due = NaT THEN 0
        ELSE Max(0, Ordinal(today) - Ordinal(payment_due))

AgeBucketGe(days, settings) ==
    IF days >= settings.aging_days_threshold THEN "Aged" ELSE "Current"

AgeBucket(days, settings) ==
    IF days > settings.aging_days_threshold THEN "Aged" ELSE "Current"

EvaluateRow(row, settings, rules, today) ==
    LET cond == ShortageCondition(row, settings, rules)
        days == DaysPastDue(row["Payment Due Date"], today)
    IN  Assign(row,
               ("Shortage_Flag" :> cond)
            @@ ("Shortage_Amount_USD" :> ShortageAmount(row, cond))
            @@ ("Days_Past_Due" :> days)
            @@ ("Age_Bucket" :> AgeBucket(days, settings)))

EvaluateCols == {"Shortage_Flag", "Shortage_Amount_USD", "Days_Past_Due", "Age_Bucket"}

\* Columns apply_shortage_logic reads (a missing one is a KeyError).
EvaluateReads ==
    {"Invoice Status", "Invoice_Delta", "Any Deductions", "Child_Invoice_Present",
     "Payment Due Date"}

\* apply_shortage_logic(df, settings, rules), with date.today() = today
ApplyShortageLogic(df, settings, rules, today) ==
    [cols |-> df.cols \cup EvaluateCols,
     rows |-> [i \in DOMAIN df.rows |-> EvaluateRow(df.rows[i], settings, rules, today)]]

\* The error of working["Invoice_Delta"] > tolerance: comparing a str cell
\* with a float is a TypeError; "none" when the comparison is defined.
EvaluateRaises(df) ==
    IF \E i \in DOMAIN df.rows : IsText(df.rows[i]["Invoice_Delta"])
    THEN "TypeError" ELSE "none"

\* ----------------------------------------------------------- quality checks

DateColumns == <<"Invoice Date", "Payment Due Date", "Invoice Creation Date">>

FloatSchemaCols == {"Actual Paid Amount", "Invoice Amount", "Invoice_Delta", "Shortage_Amount_USD"}

StringSchemaCols ==
    {"Invoice Status", "Paid Amount Currency", "Randomized Invoice", "Invoice Currency",
     "Randomized PO", "Age_Bucket"}

BoolSchemaCols == {"Any Deductions", "Child_Invoice_Present", "Shortage_Flag"}

\* Columns of _build_schema declared nullable=False.
RequiredSchemaCols ==
    SeqToSet(DateColumns) \cup FloatSchemaCols \cup StringSchemaCols \cup BoolSchemaCols
    \cup {"Days_Past_Due"}

\* Every column of _build_schema (Payment_Year is the only nullable one).
SchemaCols == RequiredSchemaCols \cup {"Payment_Year"}

\* Columns of _build_schema carrying Check.ge(0).
NonNegativeSchemaCols == {"Actual Paid Amount", "Invoice Amount", "Days_Past_Due"}

\* Whether a cell of a schema column is null (NaN, pd.NA, None).
IsNull(col, v) ==
    IF col \in FloatSchemaCols THEN v = NaN
    ELSE IF col \in StringSchemaCols THEN v = NA_Str
    ELSE IF col \in SeqToSet(DateColumns) THEN v.kind = "null"
    ELSE FALSE

\* schema.validate(df, lazy=True): every failure of the batch, as
\* <<column, check, row index>> (row 0 for a missing column).
SchemaErrors(df) ==
    {<<c, "column_in_dataframe", 0>> : c \in SchemaCols \ df.cols}
    \cup UNION {{<<c, "not_nullable", i>> : i \in {j \in DOMAIN df.rows :
                                                     IsNull(c, df.rows[j][c])}}
                : c \in RequiredSchemaCols \cap df.cols}
    \cup UNION {{<<c, "greater_than_or_equal_to(0)", i>> :
                     i \in {j \in DOMAIN df.rows :
                              /\ ~IsNull(c, df.rows[j][c])
                              /\ df.rows[j][c] < 0}}
                : c \in NonNegativeSchemaCols \cap df.cols}

\* _validate_currency: the mask (paid_valid & invoice_valid).all()
CurrencyValidNoUpper(row, expected_currency) ==
    /\ row["Paid Amount Currency"] # NA_Str
    /\ row["Invoice Currency"] # NA_Str
    /\ row["Paid Amount Currency"] = Upper(expected_currency)
    /\ row["Invoice Currency"] = Upper(expected_currency)

CurrencyValid(row, expected_currency) ==
    /\ row["Paid Amount Currency"] # NA_Str
    /\ row["Invoice Currency"] # NA_Str
    /\ Upper(row["Paid Amount Currency"]) = Upper(expected_currency)
    /\ Upper(row["Invoice Currency"]) = Upper(expected_currency)

ValidateCurrency(df, expected_currency) ==
    IF \A i \in DOMAIN df.rows : CurrencyValid(df.rows[i], expected_currency)
    THEN "ok"
    ELSE "Non-compliant currency detected during quality checks."

\* One column of _validate_dates: "ok" or the ValueError raised for it.
ValidateDateColumn(df, column, today) ==
    LET parsed == [i \in DOMAIN df.rows |-> ToDatetime(df.rows[i][column], FALSE)]
    IN  IF \E i \in DOMAIN parsed : parsed[i] = NaT
        THEN "Invalid date values found in column " \o column
        ELSE IF \E i \in DOMAIN parsed : Ordinal(parsed[i]) > Ordinal(today)
        THEN "Future-dated values found in column " \o column
        ELSE "ok"

\* _validate_dates: the columns in order, the first failure raised.
RECURSIVE ValidateDatesFrom(_, _, _, _)
ValidateDatesFrom(df, columns, k, today) ==
    IF k > Len(columns) THEN "ok"
    ELSE LET res == ValidateDateColumn(df, columns[k], today)
         IN  IF res # "ok" THEN res ELSE ValidateDatesFrom(df, columns, k + 1, today)

ValidateDatesTwoColumns(df, today) == ValidateDatesFrom(df, SubSeq(DateColumns, 1, 2), 1, today)

ValidateDates(df, today) == ValidateDatesFrom(df, DateColumns, 1, today)

\* run_quality_checks(df, settings, rules) with date.today() = today:
\* "ok" when it returns, otherwise the message of the error it raises.
RunQualityChecksDatesFirst(df, settings, rules, today) ==
    IF IsEmpty(df) THEN "Quality check failed: dataframe is empty."
    ELSE IF SchemaErrors(df) # {} THEN "SchemaErrors"
    ELSE LET dates == ValidateDates(df, today)
         IN  IF dates # "ok" THEN dates
             ELSE ValidateCurrency(df, settings.currency_expected)

RunQualityChecks(df, settings, rules, today) ==
    IF IsEmpty(df) THEN "Quality check failed: dataframe is empty."
    ELSE IF SchemaErrors(df) # {} THEN "SchemaErrors"
    ELSE LET cur == ValidateCurrency(df, settings.currency_expected)
         IN  IF cur # "ok" THEN cur ELSE ValidateDates(df, today)

\* SchemaErrors.failure_cases of the error run_quality_checks raises (empty
\* for every other outcome).
FailureCases(df, raised) == IF raised = "SchemaErrors" THEN SchemaErrors(df) ELSE {}

\* ---------------------------------------------------------------- analytics

\* Series.sum() of a float column: NaN cells are skipped.
RECURSIVE SumCol(_, _)
SumCol(rows, col) ==
    IF rows = <<>> THEN 0
    ELSE (IF Head(rows)[col] = NaN THEN 0 ELSE Head(rows)[col]) + SumCol(Tail(rows), col)

\* Series.sum() of a boolean column.
CountTrue(rows, col) == Len(SelectSeq(rows, LAMBDA r : r[col]))

\* Series.count(): the non-null cells of a string column.
CountNotNull(rows, col) == Len(SelectSeq(rows, LAMBDA r : r[col] # NA_Str))

\* Series.mean() rounded to `decimals`: sum / n to the nearest multiple of
\* 10^-decimals, ties to even.
RoundedMean(sum, n, decimals) ==
    LET q == Pow10(UnitDecimals - decimals)
        den == n * q
        k == sum \div den
        r == sum - k * den
    IN  IF 2 * r < den THEN k * q
        ELSE IF 2 * r > den THEN (k + 1) * q
        ELSE IF k % 2 = 0 THEN k * q ELSE (k + 1) * q

\* The group keys of groupby("Payment_Year", dropna=True).
GroupKeysKeepNA(rows) == {rows[i]["Payment_Year"] : i \in DOMAIN rows}

GroupKeys(rows) == {rows[i]["Payment_Year"] : i \in DOMAIN rows} \ {NA_Year}

\* The keys in the order groupby (sort=True) emits them.
RECURSIVE SortedKeysDescending(_)
SortedKeysDescending(keys) ==
    IF keys = {} THEN <<>>
    ELSE LET hi == CHOOSE k \in keys : \A other \in keys : other <= k
         IN  <<hi>> \o SortedKeysDescending(keys \ {hi})

RECURSIVE SortedKeys(_)
SortedKeys(keys) ==
    IF keys = {} THEN <<>>
    ELSE LET lo == CHOOSE k \in keys : \A other \in keys : k <= other
         IN  <<lo>> \o SortedKeys(keys \ {lo})

GroupOf(rows, year) == SelectSeq(rows, LAMBDA r : r["Payment_Year"] = year)

\* total_shortage (analytics.py:20-30)
TotalShortageAllRows(df, settings) ==
    [cols |-> {"Shortage_Count", "Total_Shortage_USD"},
     rows |-> << ("Shortage_Count" :> Len(df.rows))
              @@ ("Total_Shortage_USD" :>
                      Round(SumCol(df.rows, "Shortage_Amount_USD"), settings.round_decimals)) >>]

TotalShortage(df, settings) ==
    LET shortage_rows == SelectSeq(df.rows, LAMBDA r : r["Shortage_Flag"])
    IN  [cols |-> {"Shortage_Count", "Total_Shortage_USD"},
         rows |-> << ("Shortage_Count" :> Len(shortage_rows))
                  @@ ("Total_Shortage_USD" :>
                          Round(SumCol(shortage_rows, "Shortage_Amount_USD"),
                                settings.round_decimals)) >>]

\* annual_shortages (analytics.py:32-44)
AnnualShortages(df, settings) ==
    LET shortage_rows == SelectSeq(df.rows, LAMBDA r : r["Shortage_Flag"])
        keys == SortedKeys(GroupKeys(shortage_rows))
    IN  [cols |-> {"Payment_Year", "Shortage_Count", "Total_Shortage_USD", "Mean_Shortage_USD"},
         rows |-> [k \in DOMAIN keys |->
                     LET g == GroupOf(shortage_rows, keys[k])
                     IN  ("Payment_Year" :> keys[k])
                      @@ ("Shortage_Count" :> CountTrue(g, "Shortage_Flag"))
                      @@ ("Total_Shortage_USD" :>
                              Round(SumCol(g, "Shortage_Amount_USD"), settings.round_decimals))
                      @@ ("Mean_Shortage_USD" :>
                              RoundedMean(SumCol(g, "Shortage_Amount_USD"), Len(g),
                                          settings.round_decimals))]]

\* aged_shortages_by_year (analytics.py:46-59)
AgedShortagesByYear(df, settings) ==
    LET aged_shortages == SelectSeq(df.rows,
                              LAMBDA r : r["Shortage_Flag"] /\ r["Age_Bucket"] = "Aged")
        keys == SortedKeys(GroupKeys(aged_shortages))
    IN  [cols |-> {"Payment_Year", "Shortage_Count", "Total_Shortage_USD"},
         rows |-> [k \in DOMAIN keys |->
                     LET g == GroupOf(aged_shortages, keys[k])
                     IN  ("Payment_Year" :> keys[k])
                      @@ ("Shortage_Count" :> CountTrue(g, "Shortage_Flag"))
                      @@ ("Total_Shortage_USD" :>
                              Round(SumCol(g, "Shortage_Amount_USD"), settings.round_decimals))]]

\* aged_invoices_by_year (analytics.py:61-77)
AgedInvoicesByYear(df, settings) ==
    LET aged_invoices == SelectSeq(df.rows, LAMBDA r : r["Age_Bucket"] = "Aged")
        keys == SortedKeys(GroupKeys(aged_invoices))
    IN  [cols |-> {"Payment_Year", "Invoice_Count", "Shortage_Count", "Total_Invoice_USD",
                   "Total_Shortage_USD"},
         rows |-> [k \in DOMAIN keys |->
                     LET g == GroupOf(aged_invoices, keys[k])
                     IN  ("Payment_Year" :> keys[k])
                      @@ ("Invoice_Count" :> CountNotNull(g, "Randomized Invoice"))
                      @@ ("Shortage_Count" :> CountTrue(g, "Shortage_Flag"))
                      @@ ("Total_Invoice_USD" :>
                              Round(SumCol(g, "Invoice Amount"), settings.round_decimals))
                      @@ ("Total_Shortage_USD" :>
                              Round(SumCol(g, "Shortage_Amount_USD"), settings.round_decimals))]]

\* Columns compute_kpis reads (a missing one is a KeyError).
KpiReads ==
    {"Payment_Year", "Shortage_Flag", "Shortage_Amount_USD", "Invoice Amount",
     "Randomized Invoice", "Age_Bucket"}

\* compute_kpis(df, settings)
ComputeKpis(df, settings) ==
    [total_shortage |-> TotalShortage(df, settings),
     annual_shortages |-> AnnualShortages(df, settings),
     aged_shortages_by_year |-> AgedShortagesByYear(df, settings),
     aged_invoices_by_year |-> AgedInvoicesByYear(df, settings)]

NoKpis == [total_shortage |-> EmptyTable, annual_shortages |-> EmptyTable,
           aged_shortages_by_year |-> EmptyTable, aged_invoices_by_year |-> EmptyTable]

\* ------------------------------------------------------------------ ingest

\* _filter_currency: the rows whose two currency fields match, in order.
FilterCurrency(rows, expected_currency) ==
    SelectSeq(rows, LAMBDA r :
        /\ r["Paid Amount Currency"] # NA_Str
        /\ r["Invoice Currency"] # NA_Str
        /\ Upper(r["Paid Amount Currency"]) = Upper(expected_currency)
        /\ Upper(r["Invoice Currency"]) = Upper(expected_currency))

\* _load_single_file on rows already parsed from CSV: the float columns are
\* rounded to round_decimals, then the currency filter is applied.
ReadInvoiceData(src, settings) ==
    LET rounded == [i \in DOMAIN src.rows |->
                       Assign(src.rows[i],
                              ("Invoice Amount" :>
                                   Round(src.rows[i]["Invoice Amount"], settings.round_decimals))
                           @@ ("Actual Paid Amount" :>
                                   Round(src.rows[i]["Actual Paid Amount"],
                                         settings.round_decimals)))]
    IN  [cols |-> src.cols, rows |-> FilterCurrency(rounded, settings.currency_expected)]

\* ------------------------------------------------------------------ report

CleanFile == "invoices_clean.parquet"

FlaggedFile == "shortages_flagged.parquet"

ShortagesOnlyFile == "shortages_only.parquet"

\* mapping of export_analytics_tables: table name -> file name
AnalyticsFiles ==
    [total_shortage |-> "total_shortage.csv",
     annual_shortages |-> "annual_shortages.csv",
     aged_shortages_by_year |-> "aged_shortages_by_year.csv",
     aged_invoices_by_year |-> "aged_invoices_by_year.csv"]

AnalyticsFileNames == {AnalyticsFiles[k] : k \in DOMAIN AnalyticsFiles}

\* Files the DAG tasks hand to each other.
StagingFiles ==
    {"_staging_ingested.parquet", "_staging_transformed.parquet", "_staging_flagged.parquet"}

OutputFiles == {CleanFile, FlaggedFile, ShortagesOnlyFile} \cup AnalyticsFileNames

NoFiles == [f \in OutputFiles \cup StagingFiles |-> <<>>]

\* io.write_parquet / io.write_partitioned_parquet / io.write_csv: what the
\* file holds.
WriteParquet(table) ==
    [format |-> "parquet", partition_cols |-> {}, cols |-> table.cols, rows |-> table.rows]

WritePartitionedParquet(table, partition_col) ==
    [format |-> "parquet", partition_cols |-> {partition_col}, cols |-> table.cols,
     rows |-> table.rows]

WriteCsv(table) ==
    [format |-> "csv", partition_cols |-> {}, cols |-> table.cols, rows |-> table.rows]

\* pd.read_parquet of a staging file
ReadParquet(file) == [cols |-> file[1].cols, rows |-> file[1].rows]

\* export_clean_dataset(table, settings): the content of invoices_clean.parquet
ExportCleanDataset(table, settings) ==
    IF settings.partition_by_year
    THEN WritePartitionedParquet(table, "Payment_Year")
    ELSE WriteParquet(table)

\* df[df["Shortage_Flag"]] of export_shortage_outputs
ShortageRecordsAll(table) == table

ShortageRecords(table) ==
    [cols |-> table.cols, rows |-> SelectSeq(table.rows, LAMBDA r : r["Shortage_Flag"])]

\* export_shortage_outputs(table, settings) applied to the output directory
ExportShortageOutputs(dir, table) ==
    [dir EXCEPT ![FlaggedFile] = <<WriteParquet(table)>>,
                ![ShortagesOnlyFile] = <<WriteParquet(ShortageRecords(table))>>]

\* export_analytics_tables(tables, settings) applied to the output directory
ExportAnalyticsTables(dir, tables) ==
    [f \in DOMAIN dir |->
        IF \E k \in DOMAIN AnalyticsFiles : AnalyticsFiles[k] = f
        THEN LET k == CHOOSE key \in DOMAIN AnalyticsFiles : AnalyticsFiles[key] = f
             IN  <<WriteCsv(tables[k])>>
        ELSE dir[f]]

\* ---------------------------------------------------------------- pipeline

\* The statements of run_pipeline in program order (pipeline.py:34-45).
PipelineOrderExportFirst ==
    <<"ingest", "transform", "evaluate", "export_clean", "validate", "export_shortage",
      "compute_kpis", "export_analytics">>

PipelineOrder ==
    <<"ingest", "transform", "evaluate", "validate", "export_clean", "export_shortage",
      "compute_kpis", "export_analytics">>

\* The statement after `step`, "done" after the last one.
After(step) ==
    LET k == CHOOSE i \in DOMAIN PipelineOrder : PipelineOrder[i] = step
    IN  IF k = Len(PipelineOrder) THEN "done" ELSE PipelineOrder[k + 1]

\* -------------------------------------------------------------------- state

VARIABLES
    today,                \* date.today() of the run or call
    settings,             \* SettingsConfig in force
    rules,                \* RulesConfig in force
    df,                   \* the table a caller hands to a stage
    called,               \* the stage called on df ("none" before the call)
    result,               \* what the call produced: [table, raised, kpis]
    pc,                   \* position of run_pipeline
    source,               \* the rows of the raw CSV files, types coerced
    invoices_raw,         \* run_pipeline / DAG staging: ingested table
    invoices_transformed, \* transformed table
    invoices_flagged,     \* evaluated table
    quality,              \* outcome of run_quality_checks ("none" before it ran)
    analytics_tables,     \* tables of compute_kpis
    files,                \* output directory: file name -> <<>> or <<content>>
    task                  \* Airflow task instance states of the DAG run

vars == <<today, settings, rules, df, called, result, pc, source, invoices_raw,
          invoices_transformed, invoices_flagged, quality, analytics_tables, files, task>>

stageVars == <<df, called, result>>

runVars == <<pc, source, invoices_raw, invoices_transformed, invoices_flagged, quality,
             analytics_tables, files, task>>

\* Tables of at most MaxRows rows over a set of rows.
TablesOver(cols, rowSet) ==
    {[cols |-> cols, rows |-> r] : r \in UNION {[1..n -> rowSet] : n \in 0..MaxRows}}

NoResult == [table |-> EmptyTable, raised |-> "none", failure_cases |-> {}, kpis |-> NoKpis]

\* ------------------------------------------------- inputs of the stage calls

\* Due dates and clocks of the evaluator inputs: DueOld is 90 days before
\* ClockA and 91 days before ClockB; DueAhead is after both clocks.
DueOld == Date(2024, 1, 1)

DueAhead == Date(2024, 4, 10)

ClockA == Date(2024, 3, 31)

ClockB == Date(2024, 4, 1)

Tolerance == TestSettings.tolerance_small_delta_usd

\* Rows as tests/test_shortage_logic.py:41-52 builds them.
EvalRows ==
    {   ("Invoice_Delta" :> delta)
     @@ ("Any Deductions" :> ded)
     @@ ("Child_Invoice_Present" :> child)
     @@ ("Invoice Status" :> status)
     @@ ("Payment Due Date" :> due)
     : delta \in {Tolerance, Tolerance + 1},
       ded \in BOOLEAN, child \in BOOLEAN,
       status \in {"paid", "DISPUTED"},
       due \in {DueOld, DueAhead}}

EvalTables == TablesOver(EvaluateReads, EvalRows)

\* The valid record of tests/test_quality.py:41-64, with date.today() = ClockA.
ValidQualityRow ==
       ("Invoice Date" :> ClockA)
    @@ ("Payment Due Date" :> Date(2024, 3, 26))
    @@ ("Invoice Status" :> "PAID")
    @@ ("Actual Paid Amount" :> Cents(9500))
    @@ ("Paid Amount Currency" :> "USD")
    @@ ("Invoice Creation Date" :> Date(2024, 3, 21))
    @@ ("Randomized Invoice" :> "INV-001")
    @@ ("Invoice Amount" :> Cents(10000))
    @@ ("Invoice Currency" :> "USD")
    @@ ("Any Deductions" :> TRUE)
    @@ ("Randomized PO" :> "PO-123")
    @@ ("Invoice_Delta" :> Cents(500))
    @@ ("Child_Invoice_Present" :> FALSE)
    @@ ("Payment_Year" :> 2024)
    @@ ("Shortage_Flag" :> TRUE)
    @@ ("Shortage_Amount_USD" :> Cents(500))
    @@ ("Days_Past_Due" :> 5)
    @@ ("Age_Bucket" :> "Current")

\* Departures from the valid record, one per group of checks.
SchemaVariants ==
    { <<>>,
      ("Invoice Amount" :> Cents(-100)),
      ("Actual Paid Amount" :> Cents(-100)),
      ("Days_Past_Due" :> -1),
      ("Invoice Status" :> NA_Str) }

CurrencyVariants ==
    { ("Paid Amount Currency" :> "usd"),
      ("Invoice Currency" :> "EUR") }

DateVariants ==
    { <<>>,
      ("Invoice Date" :> ClockB),
      ("Payment Due Date" :> ClockB),
      ("Invoice Creation Date" :> DateText(99, 99, 2024)) }

QualityRows ==
    {Assign(Assign(Assign(ValidQualityRow, sv), cv), dv) :
        sv \in SchemaVariants, cv \in CurrencyVariants, dv \in DateVariants}

QualityTables == TablesOver(SchemaCols, QualityRows)

\* Evaluated rows as tests/test_analytics.py:28-37 builds them; a record that
\* is not flagged carries a shortage amount of 0.
KpiRows ==
    {   ("Payment_Year" :> year)
     @@ ("Shortage_Flag" :> fa[1])
     @@ ("Shortage_Amount_USD" :> fa[2])
     @@ ("Invoice Amount" :> Cents(11000))
     @@ ("Randomized Invoice" :> inv)
     @@ ("Age_Bucket" :> bucket)
     : year \in {2023, 2024, NA_Year},
       fa \in {<<TRUE, Cents(1000)>>, <<FALSE, 0>>},
       inv \in {"INV-1", NA_Str},
       bucket \in {"Aged", "Current"}}

KpiTables == TablesOver(KpiReads, KpiRows)

\* Columns transform_invoices reads (a missing one is a KeyError).
TransformReads ==
    {"Invoice Amount", "Actual Paid Amount", "Randomized Latest Child Invoice",
     "Payment Due Date"}

\* Rows as tests/test_transform.py:28-35 builds them.
TransformRows ==
    {   ("Invoice Amount" :> amount)
     @@ ("Actual Paid Amount" :> paid)
     @@ ("Randomized Latest Child Invoice" :> child)
     @@ ("Payment Due Date" :> due)
     : amount \in {Cents(10500), Cents(10500) + 4, NaN},
       paid \in {Cents(10000), NaN},
       child \in {"CHILD-123", " "},
       due \in {Date(2024, 6, 1), NaT}}

TransformTables == TablesOver(TransformReads, TransformRows)

\* ------------------------------------------- specification of the stage calls

InitRun ==
    /\ pc = "idle"
    /\ source = EmptyTable
    /\ invoices_raw = EmptyTable
    /\ invoices_transformed = EmptyTable
    /\ invoices_flagged = EmptyTable
    /\ quality = "none"
    /\ analytics_tables = NoKpis
    /\ files = NoFiles
    /\ task = <<>>

InitStages ==
    /\ settings = TestSettings
    /\ rules = TestRules
    /\ \/ df \in EvalTables /\ today \in {ClockA, ClockB}
       \/ df \in QualityTables /\ today = ClockA
       \/ df \in KpiTables /\ today = ClockA
       \/ df \in TransformTables /\ today = ClockA
    /\ called = "none"
    /\ result = NoResult
    /\ InitRun

CallTransformInvoices ==
    /\ called = "none"
    /\ TransformReads \subseteq df.cols
    /\ called' = "transform_invoices"
    /\ LET working == FrameCopy(CallerFrame(df))
           written == TransformInvoices(working.table, settings)
       IN  /\ result' = [NoResult EXCEPT !.table = written]
           /\ df' = SeenByCaller(df, working, written)
    /\ UNCHANGED <<today, settings, rules, runVars>>

CallApplyShortageLogic ==
    /\ called = "none"
    /\ EvaluateReads \subseteq df.cols
    /\ called' = "apply_shortage_logic"
    /\ LET working == FrameCopy(CallerFrame(df))
           written == ApplyShortageLogic(working.table, settings, rules, today)
       IN  IF EvaluateRaises(working.table) # "none"
           THEN /\ result' = [NoResult EXCEPT !.raised = EvaluateRaises(working.table)]
                /\ df' = df
           ELSE /\ result' = [NoResult EXCEPT !.table = written]
                /\ df' = SeenByCaller(df, working, written)
    /\ UNCHANGED <<today, settings, rules, runVars>>

CallRunQualityChecks ==
    /\ called = "none"
    /\ called' = "run_quality_checks"
    /\ LET raised == RunQualityChecks(df, settings, rules, today)
       IN  result' = [NoResult EXCEPT !.raised = raised,
                                      !.failure_cases = FailureCases(df, raised)]
    /\ UNCHANGED <<today, settings, rules, df, runVars>>

CallComputeKpis ==
    /\ called = "none"
    /\ KpiReads \subseteq df.cols
    /\ called' = "compute_kpis"
    /\ result' = [NoResult EXCEPT !.kpis = ComputeKpis(df, settings)]
    /\ UNCHANGED <<today, settings, rules, df, runVars>>

NextStages ==
    \/ CallTransformInvoices
    \/ CallApplyShortageLogic
    \/ CallRunQualityChecks
    \/ CallComputeKpis

SpecStages == InitStages /\ [][NextStages]_vars

\* ------------------------------------------------- claims on the stage calls

Evaluated == called = "apply_shortage_logic"

EligibleStatus(row) == Upper(row["Invoice Status"]) \in SeqToSet(rules.eligible_statuses)

Evidence(row) == row["Any Deductions"] \/ row["Child_Invoice_Present"]

\* C1: for every record passed to apply_shortage_logic, Shortage_Flag is true
\* iff Invoice_Delta > tolerance_small_delta_usd and (Any Deductions or
\* Child_Invoice_Present) and the upper-cased Invoice Status is an eligible
\* status; a delta equal to the tolerance is never flagged, and a delta one
\* smallest unit above it is flagged given evidence and an eligible status.
C1_ShortageFlagRule ==
    Evaluated =>
        \A i \in DOMAIN df.rows :
            LET in == df.rows[i]
                flag == result.table.rows[i]["Shortage_Flag"]
            IN  /\ flag <=> (/\ in["Invoice_Delta"] > settings.tolerance_small_delta_usd
                             /\ Evidence(in)
                             /\ EligibleStatus(in))
                /\ in["Invoice_Delta"] = settings.tolerance_small_delta_usd => ~flag
                /\ (/\ in["Invoice_Delta"] = settings.tolerance_small_delta_usd + 1
                    /\ Evidence(in)
                    /\ EligibleStatus(in)) => flag

\* A call whose batch holds a record at the tolerance (not flagged) and a
\* record one unit above it (flagged), both with evidence and eligible status.
C1_Witness ==
    /\ Evaluated
    /\ \E i, j \in DOMAIN df.rows :
        /\ df.rows[i]["Invoice_Delta"] = settings.tolerance_small_delta_usd
        /\ Evidence(df.rows[i]) /\ EligibleStatus(df.rows[i])
        /\ ~result.table.rows[i]["Shortage_Flag"]
        /\ df.rows[j]["Invoice_Delta"] = settings.tolerance_small_delta_usd + 1
        /\ df.rows[j]["Invoice Status"] = "paid"
        /\ result.table.rows[j]["Shortage_Flag"]

\* C2: in the output of apply_shortage_logic, Shortage_Amount_USD equals
\* Invoice_Delta when Shortage_Flag is true and equals 0 when it is false.
C2_ShortageAmountExact ==
    Evaluated =>
        \A i \in DOMAIN result.table.rows :
            LET out == result.table.rows[i]
            IN  /\ out["Shortage_Flag"] => out["Shortage_Amount_USD"] = df.rows[i]["Invoice_Delta"]
                /\ ~out["Shortage_Flag"] => out["Shortage_Amount_USD"] = 0
                /\ out["Invoice_Delta"] = df.rows[i]["Invoice_Delta"]

\* A batch with a flagged record carrying its delta and an unflagged record
\* whose non-zero delta is replaced by 0.
C2_Witness ==
    /\ Evaluated
    /\ \E i, j \in DOMAIN result.table.rows :
        /\ result.table.rows[i]["Shortage_Flag"]
        /\ result.table.rows[i]["Shortage_Amount_USD"] = settings.tolerance_small_delta_usd + 1
        /\ ~result.table.rows[j]["Shortage_Flag"]
        /\ df.rows[j]["Invoice_Delta"] > 0
        /\ result.table.rows[j]["Shortage_Amount_USD"] = 0

\* C3: in the output of apply_shortage_logic, for every value of today,
\* Days_Past_Due >= 0 (a due date in the future gives 0) and Age_Bucket is
\* "Aged" iff Days_Past_Due > aging_days_threshold, otherwise "Current"; a
\* record due exactly aging_days_threshold days ago is "Current".
C3_AgingRule ==
    Evaluated =>
        \A i \in DOMAIN result.table.rows :
            LET out == result.table.rows[i]
                due == df.rows[i]["Payment Due Date"]
            IN  /\ out["Days_Past_Due"] >= 0
                /\ Ordinal(due) > Ordinal(today) => out["Days_Past_Due"] = 0
                /\ Ordinal(due) <= Ordinal(today)
                       => out["Days_Past_Due"] = Ordinal(today) - Ordinal(due)
                /\ out["Age_Bucket"] \in {"Aged", "Current"}
                /\ out["Age_Bucket"] = "Aged"
                       <=> out["Days_Past_Due"] > settings.aging_days_threshold
                /\ Ordinal(today) - Ordinal(due) = settings.aging_days_threshold
                       => out["Age_Bucket"] = "Current"

\* A batch with a record past the threshold (Aged) and a record due in the
\* future (0 days past due, Current).
C3_Witness ==
    /\ Evaluated
    /\ \E i, j \in DOMAIN result.table.rows :
        /\ result.table.rows[i]["Days_Past_Due"] = settings.aging_days_threshold + 1
        /\ result.table.rows[i]["Age_Bucket"] = "Aged"
        /\ Ordinal(df.rows[j]["Payment Due Date"]) > Ordinal(today)
        /\ result.table.rows[j]["Days_Past_Due"] = 0
        /\ result.table.rows[j]["Age_Bucket"] = "Current"

\* A record due exactly aging_days_threshold days ago was evaluated.
C3_WitnessBoundary ==
    /\ Evaluated
    /\ \E i \in DOMAIN result.table.rows :
        /\ result.table.rows[i]["Days_Past_Due"] = settings.aging_days_threshold
        /\ result.table.rows[i]["Age_Bucket"] = "Current"

QualityChecked == called = "run_quality_checks"

\* The record conforms to the schema: required fields non-null, amounts and
\* days past due not negative.
ConformsToSchema(row) ==
    /\ \A c \in RequiredSchemaCols : ~IsNull(c, row[c])
    /\ row["Invoice Amount"] >= 0
    /\ row["Actual Paid Amount"] >= 0
    /\ row["Days_Past_Due"] >= 0

\* Both currency fields equal the expected currency, ignoring case.
CurrencyCompliant(row) ==
    /\ Upper(row["Paid Amount Currency"]) = Upper(settings.currency_expected)
    /\ Upper(row["Invoice Currency"]) = Upper(settings.currency_expected)

\* Each of the three dates parses and is not after today.
DatesSane(row) ==
    \A c \in {"Invoice Date", "Payment Due Date", "Invoice Creation Date"} :
        LET parsed == ToDatetime(row[c], FALSE)
        IN  parsed # NaT /\ Ordinal(parsed) <= Ordinal(today)

\* C4: run_quality_checks returns without raising iff the record set is not
\* empty, every record conforms to the schema, both currency fields of every
\* record equal currency_expected ignoring case, and each of the three dates
\* of every record parses and is not after today; one violating record fails
\* the whole batch.
C4_QualityGateIff ==
    QualityChecked =>
        /\ result.raised = "ok"
             <=> (/\ SchemaCols \subseteq df.cols
                  /\ Len(df.rows) > 0
                  /\ \A i \in DOMAIN df.rows :
                        /\ ConformsToSchema(df.rows[i])
                        /\ CurrencyCompliant(df.rows[i])
                        /\ DatesSane(df.rows[i]))
        /\ result.raised # "none"

\* A batch of a valid record and a record whose Payment Due Date is one day
\* in the future: the call raises.
C4_Witness ==
    /\ QualityChecked
    /\ Len(df.rows) = 2
    /\ df.rows[1] = Assign(ValidQualityRow, ("Paid Amount Currency" :> "usd"))
    /\ df.rows[2] = Assign(df.rows[1], ("Payment Due Date" :> ClockB))
    /\ Ordinal(ClockB) = Ordinal(today) + 1
    /\ result.raised = "Future-dated values found in column Payment Due Date"

\* A batch of valid records on which the call returns.
C4_WitnessPass ==
    /\ QualityChecked
    /\ Len(df.rows) = 2
    /\ result.raised = "ok"

KpisComputed == called = "compute_kpis"

\* Sum of a column over the records whose index is in idx.
RECURSIVE SumOfIndices(_, _, _)
SumOfIndices(rows, idx, col) ==
    IF idx = {} THEN 0
    ELSE LET i == CHOOSE k \in idx : TRUE
         IN  rows[i][col] + SumOfIndices(rows, idx \ {i}, col)

\* Indices of the records of df selected by flag / bucket / year.
FlaggedIdx == {i \in DOMAIN df.rows : df.rows[i]["Shortage_Flag"]}

AgedIdx == {i \in DOMAIN df.rows : df.rows[i]["Age_Bucket"] = "Aged"}

OfYear(idx, year) == {i \in idx : df.rows[i]["Payment_Year"] = year}

PresentYears(idx) == {df.rows[i]["Payment_Year"] : i \in idx} \ {NA_Year}

YearsOf(table) == {table.rows[k]["Payment_Year"] : k \in DOMAIN table.rows}

Ascending(table) ==
    \A k, l \in DOMAIN table.rows :
        k < l => table.rows[k]["Payment_Year"] < table.rows[l]["Payment_Year"]

\* C8: aged_invoices_by_year has exactly one row per distinct non-absent
\* Payment_Year among the Aged records (flagged or not); for each such year
\* Invoice_Count is the number of Aged records of the year, Shortage_Count the
\* number of those flagged, Total_Invoice_USD the sum of their Invoice Amount
\* and Total_Shortage_USD the sum of their Shortage_Amount_USD; records that
\* are not Aged contribute to no row.
C8_AgedInvoicesByYear ==
    KpisComputed =>
        LET t == result.kpis.aged_invoices_by_year
        IN  /\ YearsOf(t) = PresentYears(AgedIdx)
            /\ Len(t.rows) = Cardinality(PresentYears(AgedIdx))
            /\ \A k \in DOMAIN t.rows :
                LET g == OfYear(AgedIdx, t.rows[k]["Payment_Year"])
                IN  /\ t.rows[k]["Invoice_Count"] = Cardinality(g)
                    /\ t.rows[k]["Shortage_Count"] = Cardinality(g \cap FlaggedIdx)
                    /\ t.rows[k]["Total_Invoice_USD"] = SumOfIndices(df.rows, g, "Invoice Amount")
                    /\ t.rows[k]["Total_Shortage_USD"]
                           = SumOfIndices(df.rows, g, "Shortage_Amount_USD")

\* The same table with Invoice_Count read as the code computes it: the number
\* of Aged records of the year whose Randomized Invoice is not null.
AgedInvoicesByYearAsCoded ==
    KpisComputed =>
        LET t == result.kpis.aged_invoices_by_year
        IN  /\ YearsOf(t) = PresentYears(AgedIdx)
            /\ Len(t.rows) = Cardinality(PresentYears(AgedIdx))
            /\ \A k \in DOMAIN t.rows :
                LET g == OfYear(AgedIdx, t.rows[k]["Payment_Year"])
                IN  /\ t.rows[k]["Invoice_Count"]
                           = Cardinality({i \in g : df.rows[i]["Randomized Invoice"] # NA_Str})
                    /\ t.rows[k]["Shortage_Count"] = Cardinality(g \cap FlaggedIdx)
                    /\ t.rows[k]["Total_Invoice_USD"] = SumOfIndices(df.rows, g, "Invoice Amount")
                    /\ t.rows[k]["Total_Shortage_USD"]
                           = SumOfIndices(df.rows, g, "Shortage_Amount_USD")

\* C9: total_shortage has exactly one row, whose Shortage_Count is the number
\* of flagged records and whose Total_Shortage_USD is the sum of
\* Shortage_Amount_USD over exactly those records (0 and 0 when none is
\* flagged); records with an absent Payment_Year are included.
C9_TotalShortage ==
    KpisComputed =>
        LET t == result.kpis.total_shortage
        IN  /\ Len(t.rows) = 1
            /\ t.rows[1]["Shortage_Count"] = Cardinality(FlaggedIdx)
            /\ t.rows[1]["Total_Shortage_USD"]
                   = SumOfIndices(df.rows, FlaggedIdx, "Shortage_Amount_USD")
            /\ FlaggedIdx = {} =>
                   t.rows[1]["Shortage_Count"] = 0 /\ t.rows[1]["Total_Shortage_USD"] = 0

\* A flagged record without Payment_Year and an unflagged record: the total
\* counts the first one only.
C9_Witness ==
    /\ KpisComputed
    /\ Len(df.rows) = 2
    /\ df.rows[1]["Shortage_Flag"] /\ df.rows[1]["Payment_Year"] = NA_Year
    /\ ~df.rows[2]["Shortage_Flag"]
    /\ result.kpis.total_shortage.rows[1]["Shortage_Count"] = 1
    /\ result.kpis.total_shortage.rows[1]["Total_Shortage_USD"] = Cents(1000)

\* No record is flagged: one row of zeros.
C9_WitnessNone ==
    /\ KpisComputed
    /\ Len(df.rows) = 2
    /\ FlaggedIdx = {}
    /\ Len(result.kpis.total_shortage.rows) = 1

\* C10: annual_shortages has exactly one row per distinct non-absent
\* Payment_Year among the flagged records, aged_shortages_by_year one per
\* distinct non-absent Payment_Year among the flagged Aged records; flagged
\* records without Payment_Year form no group, rows are in ascending
\* Payment_Year order, and when no record qualifies the table is empty and
\* compute_kpis raises nothing.
C10_ShortagesByYear ==
    KpisComputed =>
        LET annual == result.kpis.annual_shortages
            aged == result.kpis.aged_shortages_by_year
        IN  /\ YearsOf(annual) = PresentYears(FlaggedIdx)
            /\ Len(annual.rows) = Cardinality(PresentYears(FlaggedIdx))
            /\ YearsOf(aged) = PresentYears(FlaggedIdx \cap AgedIdx)
            /\ Len(aged.rows) = Cardinality(PresentYears(FlaggedIdx \cap AgedIdx))
            /\ NA_Year \notin YearsOf(annual) \cup YearsOf(aged)
            /\ Ascending(annual) /\ Ascending(aged)
            /\ PresentYears(FlaggedIdx) = {} => annual.rows = <<>>
            /\ PresentYears(FlaggedIdx \cap AgedIdx) = {} => aged.rows = <<>>
            /\ result.raised = "none"

\* Flagged Aged records of 2024 then 2023: both tables list 2023 before 2024.
C10_Witness ==
    /\ KpisComputed
    /\ Len(df.rows) = 2
    /\ df.rows[1]["Payment_Year"] = 2024 /\ df.rows[2]["Payment_Year"] = 2023
    /\ FlaggedIdx = {1, 2} /\ AgedIdx = {1, 2}
    /\ Len(result.kpis.annual_shortages.rows) = 2
    /\ result.kpis.annual_shortages.rows[1]["Payment_Year"] = 2023
    /\ result.kpis.aged_shortages_by_year.rows[2]["Payment_Year"] = 2024

\* A flagged record without Payment_Year only: both tables are empty.
C10_WitnessAbsentYear ==
    /\ KpisComputed
    /\ Len(df.rows) = 1
    /\ df.rows[1]["Shortage_Flag"] /\ df.rows[1]["Payment_Year"] = NA_Year
    /\ result.kpis.annual_shortages.rows = <<>>

Transformed == called = "transform_invoices"

\* A missing amount counts as 0.
OrZero(x) == IF x = NaN THEN 0 ELSE x

Abs(x) == IF x < 0 THEN -x ELSE x

\* C14: transform_invoices never yields a missing Invoice_Delta: for every
\* record it is amount_or_0 - paid_or_0 rounded to round_decimals, i.e. the
\* multiple of 10^-round_decimals nearest to that difference (105.0 and 100.0
\* give 5.0; a missing paid amount gives the invoice amount; both missing
\* gives 0).
C14_InvoiceDeltaNeverMissing ==
    Transformed =>
        /\ Len(result.table.rows) = Len(df.rows)
        /\ \A i \in DOMAIN df.rows :
            LET amount == OrZero(df.rows[i]["Invoice Amount"])
                paid == OrZero(df.rows[i]["Actual Paid Amount"])
                delta == result.table.rows[i]["Invoice_Delta"]
                q == Pow10(UnitDecimals - settings.round_decimals)
            IN  /\ delta # NaN
                /\ delta % q = 0
                /\ 2 * Abs(delta - (amount - paid)) <= q
                /\ (amount = Cents(10500) /\ paid = Cents(10000)) => delta = Cents(500)
                /\ df.rows[i]["Actual Paid Amount"] = NaN
                       => delta = Round(amount, settings.round_decimals)
                /\ (df.rows[i]["Invoice Amount"] = NaN
                    /\ df.rows[i]["Actual Paid Amount"] = NaN) => delta = 0

\* A batch with the record of the test (105.0 and 100.0 give 5.0) and a record
\* whose two amounts are missing (delta 0).
C14_Witness ==
    /\ Transformed
    /\ \E i, j \in DOMAIN df.rows :
        /\ df.rows[i]["Invoice Amount"] = Cents(10500)
        /\ df.rows[i]["Actual Paid Amount"] = Cents(10000)
        /\ result.table.rows[i]["Invoice_Delta"] = Cents(500)
        /\ df.rows[j]["Invoice Amount"] = NaN
        /\ df.rows[j]["Actual Paid Amount"] = NaN
        /\ result.table.rows[j]["Invoice_Delta"] = 0

\* A record whose paid amount is missing got its invoice amount as delta, and
\* a record whose difference is no multiple of 10^-round_decimals was rounded.
C14_WitnessRounded ==
    /\ Transformed
    /\ \E i, j \in DOMAIN df.rows :
        /\ df.rows[i]["Invoice Amount"] = Cents(10500)
        /\ df.rows[i]["Actual Paid Amount"] = NaN
        /\ result.table.rows[i]["Invoice_Delta"] = Cents(10500)
        /\ df.rows[j]["Invoice Amount"] = Cents(10500) + 4
        /\ df.rows[j]["Actual Paid Amount"] = Cents(10000)
        /\ result.table.rows[j]["Invoice_Delta"] = Cents(500)

\* C15: no stage modifies the table it is given: across a call of
\* transform_invoices, apply_shortage_logic, run_quality_checks (returning or
\* raising) or compute_kpis, the caller's table keeps its rows, columns and
\* values; the validator returns no table, so it filters and drops nothing.
C15_StagesLeaveInputAlone ==
    [][(called = "none" /\ called' # "none") =>
           /\ df' = df
           /\ called' = "run_quality_checks" => result'.table = EmptyTable]_vars

\* transform_invoices has returned a table with the derived columns while the
\* caller's table still lacks them.
C15_Witness ==
    /\ Transformed
    /\ Len(df.rows) > 0
    /\ TransformCols \subseteq result.table.cols
    /\ TransformCols \cap df.cols = {}
    /\ \E i \in DOMAIN df.rows :
           df.rows[i]["Invoice Amount"] = NaN /\ result.table.rows[i]["Invoice Amount"] = 0

\* apply_shortage_logic has returned its table, the caller's table lacking
\* the evaluation columns.
C15_WitnessEvaluated ==
    /\ Evaluated
    /\ Len(df.rows) > 0
    /\ EvaluateCols \subseteq result.table.cols
    /\ EvaluateCols \cap df.cols = {}

\* run_quality_checks has raised on a non-empty table.
C15_WitnessRaised ==
    /\ QualityChecked
    /\ result.raised \notin {"none", "ok"}
    /\ Len(df.rows) = MaxRows

\* Every violation of the schema in the batch: a missing column, a null in a
\* required column, a negative amount or day count.
AllSchemaViolations(table) ==
    {<<c, "column_in_dataframe", 0>> : c \in SchemaCols \ table.cols}
    \cup {v \in (RequiredSchemaCols \cap table.cols) \X {"not_nullable"} \X DOMAIN table.rows :
              IsNull(v[1], table.rows[v[3]][v[1]])}
    \cup {v \in (NonNegativeSchemaCols \cap table.cols)
                \X {"greater_than_or_equal_to(0)"} \X DOMAIN table.rows :
              /\ ~IsNull(v[1], table.rows[v[3]][v[1]])
              /\ table.rows[v[3]][v[1]] < 0}

\* Some record of the batch has an unparseable or future date in the column.
DateViolation(table, column) ==
    \E i \in DOMAIN table.rows :
        LET parsed == ToDatetime(table.rows[i][column], FALSE)
        IN  parsed = NaT \/ Ordinal(parsed) > Ordinal(today)

DateMessages(column) ==
    {"Invalid date values found in column " \o column,
     "Future-dated values found in column " \o column}

\* C16: run_quality_checks applies empty-set, schema, currency and dates in
\* that order and raises the error of the earliest failing check: an empty
\* set the empty-set failure; a schema violation the schema failure, with
\* every schema violation of the batch in that one error, whatever business
\* rule is violated too; a schema-valid batch violating currency the currency
\* failure, whatever its dates; and the date check reports the first of
\* Invoice Date, Payment Due Date, Invoice Creation Date with a violation.
C16_EarliestFailingCheck ==
    QualityChecked =>
        IF df.cols = {} \/ Len(df.rows) = 0
        THEN result.raised = "Quality check failed: dataframe is empty."
        ELSE IF AllSchemaViolations(df) # {}
        THEN /\ result.raised = "SchemaErrors"
             /\ result.failure_cases = AllSchemaViolations(df)
        ELSE IF \E i \in DOMAIN df.rows : ~CurrencyCompliant(df.rows[i])
        THEN result.raised = "Non-compliant currency detected during quality checks."
        ELSE IF DateViolation(df, "Invoice Date")
        THEN result.raised \in DateMessages("Invoice Date")
        ELSE IF DateViolation(df, "Payment Due Date")
        THEN result.raised \in DateMessages("Payment Due Date")
        ELSE IF DateViolation(df, "Invoice Creation Date")
        THEN result.raised \in DateMessages("Invoice Creation Date")
        ELSE result.raised = "ok"

\* A batch with two schema violations, a currency violation and a future
\* date: the schema failure is raised and holds both schema violations.
C16_Witness ==
    /\ QualityChecked
    /\ SchemaCols \subseteq df.cols
    /\ Len(df.rows) = 2
    /\ df.rows[1]["Invoice Amount"] < 0
    /\ df.rows[2]["Invoice Status"] = NA_Str
    /\ \E i \in DOMAIN df.rows : ~CurrencyCompliant(df.rows[i])
    /\ DateViolation(df, "Payment Due Date")
    /\ result.raised = "SchemaErrors"
    /\ result.failure_cases = {<<"Invoice Amount", "greater_than_or_equal_to(0)", 1>>,
                               <<"Invoice Status", "not_nullable", 2>>}

\* A schema-valid batch violating both currency compliance and date sanity:
\* the currency failure is raised.
C16_WitnessCurrency ==
    /\ QualityChecked
    /\ SchemaCols \subseteq df.cols
    /\ Len(df.rows) > 0
    /\ AllSchemaViolations(df) = {}
    /\ \E i \in DOMAIN df.rows : ~CurrencyCompliant(df.rows[i])
    /\ DateViolation(df, "Invoice Date")
    /\ result.raised = "Non-compliant currency detected during quality checks."

\* A batch whose Payment Due Date and Invoice Creation Date are both in
\* violation: the error names Payment Due Date.
C16_WitnessDates ==
    /\ QualityChecked
    /\ SchemaCols \subseteq df.cols
    /\ Len(df.rows) > 0
    /\ ~DateViolation(df, "Invoice Date")
    /\ DateViolation(df, "Payment Due Date")
    /\ DateViolation(df, "Invoice Creation Date")
    /\ result.raised = "Future-dated values found in column Payment Due Date"

\* The empty set was checked.
C16_WitnessEmpty ==
    /\ QualityChecked
    /\ SchemaCols \subseteq df.cols
    /\ Len(df.rows) = 0
    /\ result.raised = "Quality check failed: dataframe is empty."

\* ------------------------------------------------ specification of run_pipeline

\* The columns of an ingested table that the stages read (io.py:17-35 lists
\* further columns, which no stage touches), plus Source_File.
SourceCols ==
    {"Invoice Date", "Payment Due Date", "Invoice Status", "Actual Paid Amount",
     "Paid Amount Currency", "Invoice Creation Date", "Randomized Invoice", "Invoice Amount",
     "Invoice Currency", "Any Deductions", "Randomized Latest Child Invoice", "Randomized PO",
     "Source_File"}

\* Rows of the raw CSV files once parsed: the amount may carry more decimals
\* than round_decimals, the due date may be old, in the future or missing,
\* the currency may be foreign. The run happens on ClockB.
SourceRows ==
    {   ("Invoice Date" :> Date(2023, 12, 1))
     @@ ("Payment Due Date" :> due)
     @@ ("Invoice Status" :> "PAID")
     @@ ("Actual Paid Amount" :> Cents(10000))
     @@ ("Paid Amount Currency" :> "USD")
     @@ ("Invoice Creation Date" :> Date(2023, 12, 2))
     @@ ("Randomized Invoice" :> "INV-1")
     @@ ("Invoice Amount" :> amount)
     @@ ("Invoice Currency" :> cur)
     @@ ("Any Deductions" :> ded)
     @@ ("Randomized Latest Child Invoice" :> NA_Str)
     @@ ("Randomized PO" :> "PO-1")
     @@ ("Source_File" :> "invoices.csv")
     : due \in {DueOld, DueAhead, NaT},
       amount \in {Cents(10500), Cents(10000) + 4},
       cur \in {"USD", "EUR"},
       ded \in BOOLEAN}

SourceTables == TablesOver(SourceCols, SourceRows)

Init ==
    /\ today = ClockB
    /\ settings \in {[TestSettings EXCEPT !.partition_by_year = p] : p \in BOOLEAN}
    /\ rules = TestRules
    /\ df = EmptyTable
    /\ called = "none"
    /\ result = NoResult
    /\ pc = PipelineOrder[1]
    /\ source \in SourceTables
    /\ invoices_raw = EmptyTable
    /\ invoices_transformed = EmptyTable
    /\ invoices_flagged = EmptyTable
    /\ quality = "none"
    /\ analytics_tables = NoKpis
    /\ files = NoFiles
    /\ task = <<>>

\* The table run_pipeline passes to report.export_clean_dataset.
CleanExportArgumentFlagged == invoices_flagged

CleanExportArgument == invoices_transformed

\* invoices_raw = ingest.ingest_invoices(settings); an empty table raises.
Ingest ==
    /\ pc = "ingest"
    /\ LET table == ReadInvoiceData(source, settings)
       IN  /\ invoices_raw' = table
           /\ IF IsEmpty(table)
              THEN /\ pc' = "failed"
                   /\ result' = [result EXCEPT
                                    !.raised = "No invoice data available after ingestion."]
              ELSE /\ pc' = After("ingest")
                   /\ UNCHANGED result
    /\ UNCHANGED <<today, settings, rules, df, called, source, invoices_transformed,
                   invoices_flagged, quality, analytics_tables, files, task>>

\* invoices_transformed = transform.transform_invoices(invoices_raw, settings)
Transform ==
    /\ pc = "transform"
    /\ invoices_transformed' = TransformInvoices(invoices_raw, settings)
    /\ pc' = After("transform")
    /\ UNCHANGED <<today, settings, rules, stageVars, source, invoices_raw, invoices_flagged,
                   quality, analytics_tables, files, task>>

\* invoices_flagged = shortage_logic.apply_shortage_logic(invoices_transformed, ...)
Evaluate ==
    /\ pc = "evaluate"
    /\ invoices_flagged' = ApplyShortageLogic(invoices_transformed, settings, rules, today)
    /\ pc' = After("evaluate")
    /\ UNCHANGED <<today, settings, rules, stageVars, source, invoices_raw,
                   invoices_transformed, quality, analytics_tables, files, task>>

\* run_quality_checks(invoices_flagged, settings, rules); a failure ends the run.
Validate ==
    /\ pc = "validate"
    /\ LET outcome == RunQualityChecks(invoices_flagged, settings, rules, today)
       IN  /\ quality' = outcome
           /\ IF outcome = "ok"
              THEN pc' = After("validate") /\ UNCHANGED result
              ELSE pc' = "failed" /\ result' = [result EXCEPT !.raised = outcome]
    /\ UNCHANGED <<today, settings, rules, df, called, source, invoices_raw,
                   invoices_transformed, invoices_flagged, analytics_tables, files, task>>

\* clean_path = report.export_clean_dataset(invoices_transformed, settings)
ExportClean ==
    /\ pc = "export_clean"
    /\ files' = [files EXCEPT ![CleanFile] = <<ExportCleanDataset(CleanExportArgument, settings)>>]
    /\ pc' = After("export_clean")
    /\ UNCHANGED <<today, settings, rules, stageVars, source, invoices_raw,
                   invoices_transformed, invoices_flagged, quality, analytics_tables, task>>

\* shortage_paths = report.export_shortage_outputs(invoices_flagged, settings)
ExportShortage ==
    /\ pc = "export_shortage"
    /\ files' = ExportShortageOutputs(files, invoices_flagged)
    /\ pc' = After("export_shortage")
    /\ UNCHANGED <<today, settings, rules, stageVars, source, invoices_raw,
                   invoices_transformed, invoices_flagged, quality, analytics_tables, task>>

\* analytics_tables = analytics.compute_kpis(invoices_flagged, settings)
ComputeAnalytics ==
    /\ pc = "compute_kpis"
    /\ analytics_tables' = ComputeKpis(invoices_flagged, settings)
    /\ pc' = After("compute_kpis")
    /\ UNCHANGED <<today, settings, rules, stageVars, source, invoices_raw,
                   invoices_transformed, invoices_flagged, quality, files, task>>

\* analytics_paths = report.export_analytics_tables(analytics_tables, settings)
ExportAnalytics ==
    /\ pc = "export_analytics"
    /\ files' = ExportAnalyticsTables(files, analytics_tables)
    /\ pc' = After("export_analytics")
    /\ UNCHANGED <<today, settings, rules, stageVars, source, invoices_raw,
                   invoices_transformed, invoices_flagged, quality, analytics_tables, task>>

Next ==
    \/ Ingest
    \/ Transform
    \/ Evaluate
    \/ Validate
    \/ ExportClean
    \/ ExportShortage
    \/ ComputeAnalytics
    \/ ExportAnalytics

Spec == Init /\ [][Next]_vars

\* ------------------------------------------------------ claims on run_pipeline

Written(f) == files[f] # <<>>

\* C5: in run_pipeline no output (clean dataset, shortages_flagged,
\* shortages_only, any KPI table) is written before run_quality_checks has
\* returned successfully on the flagged table of the run; a run whose
\* validation fails, or whose ingestion yields an empty table, ends having
\* written no output.
C5_PipelineGate ==
    /\ \A f \in OutputFiles :
          Written(f) =>
              /\ quality = "ok"
              /\ RunQualityChecks(invoices_flagged, settings, rules, today) = "ok"
    /\ pc = "failed" =>
          /\ result.raised # "none"
          /\ \A f \in OutputFiles : ~Written(f)

\* A run aborted by the quality gate (a due date in the future), nothing written.
C5_Witness ==
    /\ pc = "failed"
    /\ quality = "Future-dated values found in column Payment Due Date"
    /\ \A f \in OutputFiles : ~Written(f)

\* A run aborted because ingestion left no record.
C5_WitnessEmpty ==
    /\ pc = "failed"
    /\ quality = "none"
    /\ Len(source.rows) > 0
    /\ \A f \in OutputFiles : ~Written(f)

\* A run that passed the gate and wrote every output.
C5_WitnessPublished ==
    /\ pc = "done"
    /\ \A f \in OutputFiles : Written(f)

AllDerivedCols == TransformCols \cup EvaluateCols

\* The shortage-only file holds exactly the flagged records of `table`.
HoldsFlaggedRecordsOf(file, table) ==
    /\ Len(file.rows) = Cardinality({i \in DOMAIN table.rows : table.rows[i]["Shortage_Flag"]})
    /\ \A k \in DOMAIN file.rows :
          /\ file.rows[k]["Shortage_Flag"]
          /\ \E i \in DOMAIN table.rows : table.rows[i] = file.rows[k]
    /\ \A i \in DOMAIN table.rows :
          table.rows[i]["Shortage_Flag"] => \E k \in DOMAIN file.rows : file.rows[k] = table.rows[i]

\* C7 as stated: invoices_clean.parquet is the evaluated table with all
\* derived fields (Shortage_Flag, Shortage_Amount_USD, Days_Past_Due,
\* Age_Bucket besides Invoice_Delta, Child_Invoice_Present, Payment_Year), and
\* the shortage-only output holds exactly the flagged records.
C7_CleanIsEvaluated ==
    /\ Written(CleanFile) => AllDerivedCols \subseteq files[CleanFile][1].cols
    /\ Written(ShortagesOnlyFile) =>
          HoldsFlaggedRecordsOf(files[ShortagesOnlyFile][1], invoices_flagged)

\* C7 amended: invoices_clean.parquet is the transformed table: it carries
\* Invoice_Delta, Child_Invoice_Present and Payment_Year and none of the
\* evaluator's fields; the evaluated table with all derived fields is
\* shortages_flagged.parquet; the shortage-only output holds exactly the
\* records of the evaluated table whose Shortage_Flag is true.
C7_CleanIsTransformed ==
    /\ Written(CleanFile) =>
          /\ files[CleanFile][1].cols = invoices_transformed.cols
          /\ files[CleanFile][1].rows = invoices_transformed.rows
          /\ TransformCols \subseteq files[CleanFile][1].cols
          /\ files[CleanFile][1].cols \cap EvaluateCols = {}
          /\ files[CleanFile][1].partition_cols
                 = (IF settings.partition_by_year THEN {"Payment_Year"} ELSE {})
    /\ Written(FlaggedFile) =>
          /\ AllDerivedCols \subseteq files[FlaggedFile][1].cols
          /\ files[FlaggedFile][1].rows = invoices_flagged.rows
    /\ Written(ShortagesOnlyFile) =>
          /\ AllDerivedCols \subseteq files[ShortagesOnlyFile][1].cols
          /\ HoldsFlaggedRecordsOf(files[ShortagesOnlyFile][1], invoices_flagged)

\* A finished run over a flagged and an unflagged record: the clean file has
\* both without Shortage_Flag, the shortage-only file has the flagged one.
C7_Witness ==
    /\ pc = "done"
    /\ Len(invoices_flagged.rows) = 2
    /\ invoices_flagged.rows[1]["Shortage_Flag"]
    /\ ~invoices_flagged.rows[2]["Shortage_Flag"]
    /\ Len(files[CleanFile][1].rows) = 2
    /\ "Shortage_Flag" \notin files[CleanFile][1].cols
    /\ files[ShortagesOnlyFile][1].rows = <<invoices_flagged.rows[1]>>

\* ------------------------------------------ specification of the Airflow DAG

DagTasks ==
    {"ingest_data", "transform_data", "apply_shortage_logic", "compute_analytics",
     "validate_data"}

\* Upstream tasks as wired at the end of shortage_pipeline().
Upstream(t) ==
    CASE t = "ingest_data" -> {}
      [] t = "transform_data" -> {"ingest_data"}
      [] t = "apply_shortage_logic" -> {"transform_data"}
      [] t = "compute_analytics" -> {"apply_shortage_logic"}
      [] t = "validate_data" -> {"apply_shortage_logic"}

\* A task instance may be started: not finished, every upstream succeeded.
Runnable(t) ==
    /\ task[t] \in {"none", "up_for_retry"}
    /\ \A u \in Upstream(t) : task[u] = "success"

\* State of a task whose attempt raised: DEFAULT_ARGS grants one retry.
AfterFailure(t) == IF task[t] = "none" THEN "up_for_retry" ELSE "failed"

InitDag ==
    /\ today = ClockB
    /\ settings \in {[TestSettings EXCEPT !.partition_by_year = p] : p \in BOOLEAN}
    /\ rules = TestRules
    /\ df = EmptyTable
    /\ called = "none"
    /\ result = NoResult
    /\ pc = "idle"
    /\ source \in SourceTables
    /\ invoices_raw = EmptyTable
    /\ invoices_transformed = EmptyTable
    /\ invoices_flagged = EmptyTable
    /\ quality = "none"
    /\ analytics_tables = NoKpis
    /\ files = NoFiles
    /\ task = [t \in DagTasks |-> "none"]

DagIngestData ==
    /\ Runnable("ingest_data")
    /\ files' = [files EXCEPT
                    !["_staging_ingested.parquet"] =
                        <<WriteParquet(ReadInvoiceData(source, settings))>>]
    /\ task' = [task EXCEPT !["ingest_data"] = "success"]
    /\ UNCHANGED <<today, settings, rules, stageVars, pc, source, invoices_raw,
                   invoices_transformed, invoices_flagged, quality, analytics_tables>>

DagTransformData ==
    /\ Runnable("transform_data")
    /\ LET transformed ==
               TransformInvoices(ReadParquet(files["_staging_ingested.parquet"]), settings)
       IN  files' = [files EXCEPT
                        ![CleanFile] = <<ExportCleanDataset(transformed, settings)>>,
                        !["_staging_transformed.parquet"] = <<WriteParquet(transformed)>>]
    /\ task' = [task EXCEPT !["transform_data"] = "success"]
    /\ UNCHANGED <<today, settings, rules, stageVars, pc, source, invoices_raw,
                   invoices_transformed, invoices_flagged, quality, analytics_tables>>

DagApplyShortageLogic ==
    /\ Runnable("apply_shortage_logic")
    /\ LET flagged ==
               ApplyShortageLogic(ReadParquet(files["_staging_transformed.parquet"]),
                                  settings, rules, today)
       IN  files' = [ExportShortageOutputs(files, flagged) EXCEPT
                        !["_staging_flagged.parquet"] = <<WriteParquet(flagged)>>]
    /\ task' = [task EXCEPT !["apply_shortage_logic"] = "success"]
    /\ UNCHANGED <<today, settings, rules, stageVars, pc, source, invoices_raw,
                   invoices_transformed, invoices_flagged, quality, analytics_tables>>

DagComputeAnalytics ==
    /\ Runnable("compute_analytics")
    /\ LET tables == ComputeKpis(ReadParquet(files["_staging_flagged.parquet"]), settings)
       IN  /\ analytics_tables' = tables
           /\ files' = ExportAnalyticsTables(files, tables)
    /\ task' = [task EXCEPT !["compute_analytics"] = "success"]
    /\ UNCHANGED <<today, settings, rules, stageVars, pc, source, invoices_raw,
                   invoices_transformed, invoices_flagged, quality>>

DagValidateData ==
    /\ Runnable("validate_data")
    /\ LET outcome == RunQualityChecks(ReadParquet(files["_staging_flagged.parquet"]),
                                       settings, rules, today)
       IN  /\ quality' = outcome
           /\ task' = [task EXCEPT !["validate_data"] =
                          IF outcome = "ok" THEN "success" ELSE AfterFailure("validate_data")]
    /\ UNCHANGED <<today, settings, rules, stageVars, pc, source, invoices_raw,
                   invoices_transformed, invoices_flagged, analytics_tables, files>>

NextDag ==
    \/ DagIngestData
    \/ DagTransformData
    \/ DagApplyShortageLogic
    \/ DagComputeAnalytics
    \/ DagValidateData

SpecDag == InitDag /\ [][NextDag]_vars

\* ----------------------------------------------------------- claims on the DAG

\* C6: in the DAG, in every task ordering the dependencies permit, the KPI
\* tables and the shortage outputs are written only if validate_data succeeds
\* on the same flagged dataset: no execution has validate_data failed and
\* those outputs published.
C6_DagGate ==
    task["validate_data"] = "failed" =>
        \A f \in AnalyticsFileNames \cup {FlaggedFile, ShortagesOnlyFile} : ~Written(f)

\* ------------- specification of apply_shortage_logic calls on irregular inputs

\* The parsed rules file of a deployment that lists its statuses in lower case.
RawRules ==
    [eligible_statuses |-> <<"paid", "disputed">>,
     shortage_required_flags |-> <<"Any Deductions", "Child_Invoice_Present">>,
     use_strict_currency_check |-> TRUE]

\* A RulesConfig constructed directly, its allow-list not upper-cased.
DirectRules ==
    [eligible_statuses |-> <<"paid", "DISPUTED">>,
     shortage_required_flags |-> <<"Any Deductions", "Child_Invoice_Present">>,
     use_strict_currency_check |-> TRUE]

\* Records above the tolerance whose status is spelt in several cases.
StatusRows ==
    {   ("Invoice_Delta" :> Tolerance + 1)
     @@ ("Any Deductions" :> ded)
     @@ ("Child_Invoice_Present" :> FALSE)
     @@ ("Invoice Status" :> status)
     @@ ("Payment Due Date" :> DueOld)
     : ded \in BOOLEAN, status \in {"paid", "Paid", "PAID", "DISPUTED"}}

StatusTables == TablesOver(EvaluateReads, StatusRows)

\* Records whose evidence columns hold text instead of booleans.
FlagTextRows ==
    {   ("Invoice_Delta" :> delta)
     @@ ("Any Deductions" :> ded)
     @@ ("Child_Invoice_Present" :> child)
     @@ ("Invoice Status" :> "PAID")
     @@ ("Payment Due Date" :> DueOld)
     : delta \in {Tolerance, Tolerance + 1}, ded \in {"no", ""}, child \in {"yes", ""}}

FlagTextTables == TablesOver(EvaluateReads, FlagTextRows)

\* Records whose Invoice_Delta holds text instead of a number.
DeltaTextRows ==
    {   ("Invoice_Delta" :> delta)
     @@ ("Any Deductions" :> ded)
     @@ ("Child_Invoice_Present" :> FALSE)
     @@ ("Invoice Status" :> "PAID")
     @@ ("Payment Due Date" :> DueOld)
     : delta \in NumberTexts, ded \in BOOLEAN}

DeltaTextTables == TablesOver(EvaluateReads, DeltaTextRows)

\* Records whose due date is missing (None) or no calendar date, next to
\* records due 91 days before ClockB and due after it.
MissingDueRows ==
    {   ("Invoice_Delta" :> delta)
     @@ ("Any Deductions" :> TRUE)
     @@ ("Child_Invoice_Present" :> FALSE)
     @@ ("Invoice Status" :> "PAID")
     @@ ("Payment Due Date" :> due)
     : delta \in {Tolerance, Tolerance + 1},
       due \in {NaT, DateText(99, 99, 2024), DueOld, DueAhead}}

MissingDueTables == TablesOver(EvaluateReads, MissingDueRows)

\* Aging thresholds of the irregular calls: the tested one, zero and a
\* negative one.
AgingThresholds == {TestSettings.aging_days_threshold, 0, -1}

InitIrregular ==
    /\ today = ClockB
    /\ \/ /\ df \in StatusTables
          /\ rules \in {TestRules, LoadRules(RawRules), DirectRules}
          /\ settings = TestSettings
       \/ /\ df \in FlagTextTables
          /\ rules = TestRules
          /\ settings = TestSettings
       \/ /\ df \in DeltaTextTables
          /\ rules = TestRules
          /\ settings = TestSettings
       \/ /\ df \in MissingDueTables
          /\ rules = TestRules
          /\ settings \in {[TestSettings EXCEPT !.aging_days_threshold = t] :
                              t \in AgingThresholds}
    /\ called = "none"
    /\ result = NoResult
    /\ InitRun

NextIrregular ==
    \/ CallApplyShortageLogic

SpecIrregular == InitIrregular /\ [][NextIrregular]_vars

\* Two strings are equal ignoring letter case.
SameIgnoringCase(a, b) == Upper(a) = Upper(b)

\* C11: for every record status s and every allow-list L of the RulesConfig
\* in force (built by load_rules or directly), the status clause of the
\* shortage predicate holds iff some element of L equals s ignoring case;
\* on a record above the tolerance with evidence the clause is the flag.
C11_StatusCaseInsensitive ==
    (Evaluated /\ result.raised = "none") =>
        \A i \in DOMAIN df.rows :
            LET in == df.rows[i]
            IN  (/\ in["Invoice_Delta"] > settings.tolerance_small_delta_usd
                 /\ AsBool(in["Any Deductions"]) \/ AsBool(in["Child_Invoice_Present"]))
                => (result.table.rows[i]["Shortage_Flag"]
                      <=> \E e \in SeqToSet(rules.eligible_statuses) :
                              SameIgnoringCase(e, in["Invoice Status"]))

\* isinstance(v, bool) for a cell of an evidence column.
IsBoolCell(v) == ToString(v) \in {"TRUE", "FALSE"}

\* The batch holds a record whose evidence is no boolean or whose delta is
\* no number.
MisShaped(table) ==
    \E i \in DOMAIN table.rows :
        \/ ~IsBoolCell(table.rows[i]["Any Deductions"])
        \/ ~IsBoolCell(table.rows[i]["Child_Invoice_Present"])
        \/ IsText(table.rows[i]["Invoice_Delta"])

\* C12: when a record's Any Deductions or Child_Invoice_Present is not a
\* boolean, or its Invoice_Delta is not numeric, apply_shortage_logic ends in
\* an error and produces no Shortage_Flag for that input.
C12_MisShapedInputRaises ==
    (Evaluated /\ MisShaped(df)) =>
        /\ result.raised # "none"
        /\ result.table = EmptyTable

\* The due date cell is None or text that is no calendar date in either order.
MissingDue(cell) ==
    \/ cell.kind = "null"
    \/ /\ cell.kind = "text"
       /\ ~ValidDate(cell.y, cell.m, cell.d)
       /\ ~ValidDate(cell.y, cell.d, cell.m)

\* C13: a record whose Payment Due Date is missing or unparseable never makes
\* apply_shortage_logic fail: the call completes for the whole batch, that
\* record gets Days_Past_Due = 0 (Age_Bucket "Current" when the aging
\* threshold is non-negative), and the records with a due date get their
\* days past due, bucket, flag and amount as usual.
C13_MissingDueDate ==
    (Evaluated /\ ~MisShaped(df)) =>
        /\ result.raised = "none"
        /\ Len(result.table.rows) = Len(df.rows)
        /\ \A i \in DOMAIN df.rows :
            LET in == df.rows[i]
                out == result.table.rows[i]
                due == in["Payment Due Date"]
            IN  /\ MissingDue(due) =>
                    /\ out["Days_Past_Due"] = 0
                    /\ settings.aging_days_threshold >= 0 => out["Age_Bucket"] = "Current"
                /\ due.kind = "date" =>
                    /\ out["Days_Past_Due"] = Max(0, Ordinal(today) - Ordinal(due))
                    /\ out["Age_Bucket"] = "Aged"
                           <=> out["Days_Past_Due"] > settings.aging_days_threshold
                /\ out["Shortage_Flag"]
                       <=> (/\ in["Invoice_Delta"] > settings.tolerance_small_delta_usd
                            /\ Evidence(in)
                            /\ Upper(in["Invoice Status"]) \in SeqToSet(rules.eligible_statuses))
                /\ out["Shortage_Amount_USD"]
                       = IF out["Shortage_Flag"] THEN in["Invoice_Delta"] ELSE 0

\* A batch of a record without due date and of an unparseable one next to a
\* record 91 days past due: the first two get 0 days and "Current", the third
\* is "Aged" under the threshold of 90 days.
C13_Witness ==
    /\ Evaluated
    /\ ~MisShaped(df)
    /\ settings.aging_days_threshold = 90
    /\ \E i, j \in DOMAIN df.rows :
        /\ df.rows[i]["Payment Due Date"].kind \in {"null", "text"}
        /\ MissingDue(df.rows[i]["Payment Due Date"])
        /\ result.table.rows[i]["Days_Past_Due"] = 0
        /\ result.table.rows[i]["Age_Bucket"] = "Current"
        /\ result.table.rows[i]["Shortage_Flag"]
        /\ df.rows[j]["Payment Due Date"] = DueOld
        /\ result.table.rows[j]["Days_Past_Due"] = 91
        /\ result.table.rows[j]["Age_Bucket"] = "Aged"

\* A record without due date was evaluated under the threshold 0.
C13_WitnessZeroThreshold ==
    /\ Evaluated
    /\ ~MisShaped(df)
    /\ settings.aging_days_threshold = 0
    /\ \E i \in DOMAIN df.rows :
        /\ df.rows[i]["Payment Due Date"] = NaT
        /\ result.table.rows[i]["Age_Bucket"] = "Current"

\* ------------------------- specification of stage calls on textual due dates

\* Due dates given as text "a/b/y": two with day and month both <= 12, read as
\* different days by the two conventions, one of the year before, and one
\* that only reads as a date day-first.
DueTexts ==
    {DateText(3, 4, 2024), DateText(4, 3, 2024), DateText(1, 12, 2023), DateText(25, 3, 2024)}

\* The valid record of tests/test_quality.py:41-64 with the column
\* transform_invoices reads in addition and a textual due date.
ConventionRows ==
    {Assign(ValidQualityRow,
               ("Payment Due Date" :> due)
            @@ ("Randomized Latest Child Invoice" :> "CHILD-123"))
     : due \in DueTexts}

ConventionTables == TablesOver(SchemaCols \cup TransformReads, ConventionRows)

\* Values of settings.date_format: day-first and month-first.
DateFormats == {"dayfirst", "monthfirst"}

InitConvention ==
    /\ today = ClockA
    /\ settings \in {[TestSettings EXCEPT !.date_format = f] : f \in DateFormats}
    /\ rules = TestRules
    /\ df \in ConventionTables
    /\ called = "none"
    /\ result = NoResult
    /\ InitRun

NextConvention ==
    \/ CallTransformInvoices
    \/ CallApplyShortageLogic
    \/ CallRunQualityChecks

SpecConvention == InitConvention /\ [][NextConvention]_vars

\* The due date is text whose day and month are both <= 12.
AmbiguousText(cell) ==
    cell.kind = "text" /\ cell.d \in 1..12 /\ cell.m \in 1..12

\* The calendar date of an ambiguous text under the configured convention.
ConfiguredDate(cell) ==
    IF Lower(settings.date_format) \in {"dayfirst", "dd/mm/yyyy"}
    THEN Date(cell.y, cell.m, cell.d)
    ELSE Date(cell.y, cell.d, cell.m)

AllAmbiguous(table) ==
    \A i \in DOMAIN table.rows : AmbiguousText(table.rows[i]["Payment Due Date"])

\* C17: for every record whose Payment Due Date is ambiguous text and for
\* either value of settings.date_format, the Payment_Year of
\* transform_invoices, the Days_Past_Due of apply_shortage_logic and the
\* future-date check of run_quality_checks all refer to the calendar date the
\* configured convention gives.
C17_OneDateConvention ==
    /\ Transformed =>
           \A i \in DOMAIN df.rows :
               LET due == df.rows[i]["Payment Due Date"]
               IN  AmbiguousText(due)
                   => result.table.rows[i]["Payment_Year"] = ConfiguredDate(due).y
    /\ Evaluated =>
           \A i \in DOMAIN df.rows :
               LET due == df.rows[i]["Payment Due Date"]
               IN  AmbiguousText(due)
                   => result.table.rows[i]["Days_Past_Due"]
                          = Max(0, Ordinal(today) - Ordinal(ConfiguredDate(due)))
    /\ (QualityChecked /\ Len(df.rows) > 0 /\ AllAmbiguous(df)) =>
           (result.raised = "Future-dated values found in column Payment Due Date"
                <=> \E i \in DOMAIN df.rows :
                        Ordinal(ConfiguredDate(df.rows[i]["Payment Due Date"]))
                            > Ordinal(today))

\* --------------------- specification of compute_kpis on an evaluated table

DueLastYear == Date(2023, 6, 1)

\* Transformed records as apply_shortage_logic and compute_kpis read them:
\* a delta above or at the tolerance, with or without evidence, due 91 days
\* before ClockB, in the year before, or after ClockB; Payment_Year is the
\* year of the due date.
ChainRows ==
    {   ("Invoice_Delta" :> delta)
     @@ ("Any Deductions" :> ded)
     @@ ("Child_Invoice_Present" :> FALSE)
     @@ ("Invoice Status" :> "PAID")
     @@ ("Payment Due Date" :> due)
     @@ ("Payment_Year" :> due.y)
     @@ ("Invoice Amount" :> Cents(11000))
     @@ ("Randomized Invoice" :> "INV-1")
     : delta \in {Cents(500), Tolerance},
       ded \in BOOLEAN,
       due \in {DueOld, DueLastYear, DueAhead}}

ChainTables ==
    TablesOver(EvaluateReads \cup {"Payment_Year", "Invoice Amount", "Randomized Invoice"},
               ChainRows)

InitChain ==
    /\ today = ClockB
    /\ settings = TestSettings
    /\ rules = TestRules
    /\ df \in ChainTables
    /\ called = "none"
    /\ result = NoResult
    /\ InitRun

\* df = apply_shortage_logic(df, settings, rules); compute_kpis(df, settings)
CallComputeKpisOnEvaluated ==
    /\ called = "apply_shortage_logic"
    /\ result.raised = "none"
    /\ KpiReads \subseteq result.table.cols
    /\ called' = "compute_kpis"
    /\ df' = result.table
    /\ result' = [result EXCEPT !.kpis = ComputeKpis(result.table, settings)]
    /\ UNCHANGED <<today, settings, rules, runVars>>

NextChain ==
    \/ CallApplyShortageLogic
    \/ CallComputeKpisOnEvaluated

SpecChain == InitChain /\ [][NextChain]_vars

\* The row of a KPI table for a payment year, as a set (empty or a singleton).
RowsOfYear(table, year) ==
    {table.rows[k] : k \in {j \in DOMAIN table.rows : table.rows[j]["Payment_Year"] = year}}

\* C18: for the KPI tables of one compute_kpis call on an output of
\* apply_shortage_logic and every payment year y, the Shortage_Count and
\* Total_Shortage_USD of the aged_invoices_by_year row for y equal those of
\* the aged_shortages_by_year row for y, and are 0 when aged_shortages_by_year
\* has no row for y; every year with a row in aged_shortages_by_year has a
\* row in annual_shortages and in aged_invoices_by_year.
C18_KpiTablesAgree ==
    KpisComputed =>
        LET invoices == result.kpis.aged_invoices_by_year
            shortages == result.kpis.aged_shortages_by_year
            annual == result.kpis.annual_shortages
        IN  /\ \A k \in DOMAIN invoices.rows :
                LET r == invoices.rows[k]
                    same == RowsOfYear(shortages, r["Payment_Year"])
                IN  IF same = {}
                    THEN r["Shortage_Count"] = 0 /\ r["Total_Shortage_USD"] = 0
                    ELSE \A t \in same :
                            /\ r["Shortage_Count"] = t["Shortage_Count"]
                            /\ r["Total_Shortage_USD"] = t["Total_Shortage_USD"]
            /\ \A k \in DOMAIN shortages.rows :
                /\ RowsOfYear(annual, shortages.rows[k]["Payment_Year"]) # {}
                /\ RowsOfYear(invoices, shortages.rows[k]["Payment_Year"]) # {}

\* KPIs of an evaluated batch with an aged flagged record of 2024 and an aged
\* record of 2023 that is not flagged although its delta is not 0: the 2024
\* rows agree on count 1 and 5.00, the 2023 row of aged_invoices_by_year
\* shows 0 and aged_shortages_by_year has no 2023 row.
C18_Witness ==
    /\ KpisComputed
    /\ Len(df.rows) = 2
    /\ \E i \in DOMAIN df.rows :
        /\ df.rows[i]["Payment_Year"] = 2023
        /\ ~df.rows[i]["Shortage_Flag"]
        /\ df.rows[i]["Invoice_Delta"] > 0
        /\ df.rows[i]["Age_Bucket"] = "Aged"
    /\ Len(result.kpis.aged_invoices_by_year.rows) = 2
    /\ Len(result.kpis.aged_shortages_by_year.rows) = 1
    /\ result.kpis.aged_shortages_by_year.rows[1]["Payment_Year"] = 2024
    /\ result.kpis.aged_shortages_by_year.rows[1]["Shortage_Count"] = 1
    /\ result.kpis.aged_shortages_by_year.rows[1]["Total_Shortage_USD"] = Cents(500)
    /\ result.kpis.aged_invoices_by_year.rows[1]["Shortage_Count"] = 0
    /\ result.kpis.aged_invoices_by_year.rows[2]["Shortage_Count"] = 1
    /\ result.kpis.aged_invoices_by_year.rows[2]["Total_Shortage_USD"] = Cents(500)
====
